---- MODULE Spec2Model ----
(***************************************************************************)
(* DiscreteObjectEnvironment of neuralplayground/arenas/                   *)
(* discritized_objects.py: the discretised state grid, the object table,   *)
(* the wall-checked movement and the reset/step loop with its history.     *)
(*                                                                         *)
(* Numbers.  Positions are pairs of integers counted in lattice steps of   *)
(* 1/unit of a physical length unit (unit is a field of the configuration, *)
(* so a room narrower than one physical unit can be written down).  Grid   *)
(* cell centres are rationals; they are kept as numerators over the        *)
(* common denominator GridDen(c), and a position is brought to the same    *)
(* denominator (ToGrid) before distances are compared, so every distance   *)
(* comparison is exact.                                                    *)
(***************************************************************************)
EXTENDS Integers, Sequences, FiniteSets, TLC

VARIABLES
    cfg,            \* the env_kwargs the arena was constructed with
    pyRng,          \* state of Python's module-level `random` generator
    npRng,          \* state of numpy's module-level generator
    state,          \* self.state: <<>> before reset, then <<index, object, pos>>
    objects,        \* self.objects: one row per discrete state
    history,        \* self.history: sequence of transition records
    global_steps,   \* self.global_steps
    global_time,    \* self.global_time
    lastCall,       \* the most recent reset/step call: arguments and results
    prevReset,      \* the reset call directly before lastCall, when lastCall is
                    \* a reset with the same arguments; NoCall otherwise
    located,        \* the most recent direct pos_to_state query and its result
    other,          \* the fields of a second arena instance of the same process
    alone           \* the fields the first instance, and the generator states
                    \* the process, would have had the second never been operated

vars == <<cfg, pyRng, npRng, state, objects, history, global_steps,
          global_time, lastCall, prevReset, located, other, alone>>

---------------------------------------------------------------------------
(* Bounds of the model *)

\* step calls per episode (the guard of Step)
MaxSteps == 2
\* size of the state space of each of the two modelled random generators
RngMod == 4

---------------------------------------------------------------------------
(* Configurations (env_kwargs) *)

MkCfg(n_objects, dnum, dden, unit, xlim, ylim) ==
    [n_objects |-> n_objects,
     density_num |-> dnum, density_den |-> dden,   \* state_density = dnum/dden
     unit |-> unit,                                 \* lattice steps per physical unit
     arena_x_limits |-> xlim, arena_y_limits |-> ylim,   \* in lattice steps
     agent_step_size |-> unit,                      \* agent_step_size = 1
     time_step_size |-> 1,
     reward |-> "default"]      \* which reward_function the arena's class has

\* x and y limits [-5,5] as in examples/agent_examples/whittington_2020_run.py,
\* with a 3 x 3 grid
CfgExample == MkCfg(2, 3, 10, 1, <<-5, 5>>, <<-5, 5>>)
\* a 2 x 2 grid
CfgSmall == MkCfg(2, 1, 1, 1, <<-1, 1>>, <<-1, 1>>)
\* a 3 x 2 grid whose arena is not centred on the origin, of a class that
\* overrides reward_function
CfgOffset == [MkCfg(3, 1, 1, 1, <<0, 3>>, <<0, 2>>) EXCEPT !.reward = "override"]

\* the arenas the reset/step loop is run in
ArenaConfigs == {CfgExample, CfgSmall, CfgOffset}

\* further grids for the direct pos_to_state queries: density 2, density
\* 3/2 on half-unit coordinates, a 1 x 3 grid, and (on quarter-unit
\* coordinates) a room half a unit wide and two units deep with density 1,
\* whose resolution_w is int(0.5) = 0
GridConfigs ==
    ArenaConfigs \cup
    {MkCfg(2, 2, 1, 1, <<-1, 1>>, <<0, 1>>),
     MkCfg(2, 3, 2, 2, <<-3, 3>>, <<-2, 2>>),
     MkCfg(2, 1, 1, 2, <<-1, 1>>, <<-3, 3>>),
     MkCfg(2, 1, 1, 4, <<0, 2>>, <<-4, 4>>)}

---------------------------------------------------------------------------
(* __init__: the discretised state space *)

Abs(a) == IF a < 0 THEN -a ELSE a
Max2(a, b) == IF a >= b THEN a ELSE b

room_width(c) == c.arena_x_limits[2] - c.arena_x_limits[1]
room_depth(c) == c.arena_y_limits[2] - c.arena_y_limits[1]

\* int(state_density * room_width): truncation of a non-negative product
resolution_w(c) == (c.density_num * room_width(c)) \div (c.density_den * c.unit)
resolution_d(c) == (c.density_num * room_depth(c)) \div (c.density_den * c.unit)

n_states(c) == resolution_w(c) * resolution_d(c)

\* np.linspace(start, stop, num) has num - 1 intervals, and is [start] for num = 1
LinDiv(num) == Max2(num - 1, 1)

\* common denominator of all cell-centre coordinates (in lattice steps)
GridDen(c) == 2 * LinDiv(resolution_w(c)) * LinDiv(resolution_d(c))

\* a lattice position on the denominator of the grid
ToGrid(c, pos) == <<pos[1] * GridDen(c), pos[2] * GridDen(c)>>

\* np.linspace(-room_width/2, room_width/2, num=resolution_w), numerators
x_array(c) ==
    [i \in 0..(resolution_w(c) - 1) |->
        (2 * i * room_width(c) - room_width(c) * LinDiv(resolution_w(c)))
            * LinDiv(resolution_d(c))]

\* np.linspace(room_depth/2, -room_depth/2, num=resolution_d), numerators
y_array(c) ==
    [j \in 0..(resolution_d(c) - 1) |->
        (room_depth(c) * LinDiv(resolution_d(c)) - 2 * j * room_depth(c))
            * LinDiv(resolution_w(c))]

\* np.array(np.meshgrid(x_array, y_array)).T : shape (resolution_w, resolution_d, 2)
xy_combination(c) ==
    [i \in 0..(resolution_w(c) - 1) |->
        [j \in 0..(resolution_d(c) - 1) |-> <<x_array(c)[i], y_array(c)[j]>>]]

\* the grid of every configuration, built once (as __init__ does)
Grids == [c \in GridConfigs |-> xy_combination(c)]

---------------------------------------------------------------------------
(* pos_to_state *)

RECURSIVE ArgminScan(_, _, _, _, _)
\* the scan from flat index k on, best being the first minimum before k
ArgminScan(a, cols, n, k, best) ==
    IF k >= n THEN best
    ELSE ArgminScan(a, cols, n, k + 1,
                    IF a[k \div cols][k % cols] < a[best \div cols][best % cols]
                    THEN k ELSE best)

\* np.argmin of a non-empty 2-d array: the first minimum of the row-major
\* flattening
argmin(a, rows, cols) == ArgminScan(a, cols, rows * cols, 1, 0)

\* np.argmin raises ValueError on an empty array
ArgminRaises(c) == n_states(c) = 0

\* a variant that forgets the transpose of line 182
pos_to_state_noT(c, gpos) ==
    LET xy == Grids[c]
        dist == [i \in 0..(resolution_w(c) - 1) |->
                    [j \in 0..(resolution_d(c) - 1) |->
                        (xy[i][j][1] - gpos[1]) * (xy[i][j][1] - gpos[1])
                        + (xy[i][j][2] - gpos[2]) * (xy[i][j][2] - gpos[2])]]
    IN  argmin(dist, resolution_w(c), resolution_d(c))

\* gpos is a position on the grid's denominator (ToGrid)
pos_to_state(c, gpos) ==
    LET xy == Grids[c]
        \* diff = xy_combination - pos; dist = np.sum(diff ** 2, axis=2).T
        dist == [j \in 0..(resolution_d(c) - 1) |->
                    [i \in 0..(resolution_w(c) - 1) |->
                        (xy[i][j][1] - gpos[1]) * (xy[i][j][1] - gpos[1])
                        + (xy[i][j][2] - gpos[2]) * (xy[i][j][2] - gpos[2])]]
    IN  argmin(dist, resolution_d(c), resolution_w(c))

\* the centre of the cell a pos_to_state index names: dist[j][i] is the
\* distance to (x_array[i], y_array[j]) and the index is j * resolution_w + i
CellCentre(c, index) ==
    <<x_array(c)[index % resolution_w(c)], y_array(c)[index \div resolution_w(c)]>>

SqDist(p, q) == (p[1] - q[1]) * (p[1] - q[1]) + (p[2] - q[2]) * (p[2] - q[2])

---------------------------------------------------------------------------
(* The module-level random generators                                      *)
(*                                                                         *)
(* random.randint (line 169) and np.random.uniform (lines 107-108) draw    *)
(* from two separate process-wide generators.  Each is modelled as a       *)
(* small deterministic generator: a state in 0..RngMod-1 that every draw   *)
(* advances, and an output computed from the new state.                    *)

RngStates == 0..(RngMod - 1)

RngNext(s) == (s + 1) % RngMod

\* the number a draw delivers, before it is brought into the asked range
RngOut(s) == s * s + s \div 2

RECURSIVE RngIter(_, _)
\* the generator state after k draws
RngIter(s, k) == IF k = 0 THEN s ELSE RngIter(RngNext(s), k - 1)

\* random.randint(a, b): an integer in a..b, both ends included
randint(s, a, b) == a + (RngOut(RngNext(s)) % (b - a + 1))

\* np.random.uniform(low, high): a lattice point of [low, high)
uniform(s, low, high) ==
    IF high > low THEN low + (RngOut(RngNext(s)) % (high - low)) ELSE low

---------------------------------------------------------------------------
(* generate_objects *)

\* a variant whose rows are filled up to the diagonal
poss_objects_lower(c) ==
    [i \in 0..(c.n_objects - 1) |->
        [j \in 0..(c.n_objects - 1) |-> IF j <= i THEN 1 ELSE 0]]

\* lines 161-165: the n_objects x n_objects identity matrix
poss_objects(c) ==
    [i \in 0..(c.n_objects - 1) |->
        [j \in 0..(c.n_objects - 1) |-> IF j = i THEN 1 ELSE 0]]

\* lines 167-171: one draw per state, in state order; returns the table and
\* the generator state the draws leave behind
generate_objects(c, py) ==
    [objects |->
        [i \in 0..(n_states(c) - 1) |->
            poss_objects(c)[randint(RngIter(py, i), 0, c.n_objects - 1)]],
     py |-> RngIter(py, n_states(c))]

---------------------------------------------------------------------------
(* Walls and validate_action *)

\* a variant that builds the second wall on the lower x limit again
create_default_walls_noRight(c) ==
    LET x0 == c.arena_x_limits[1]
        x1 == c.arena_x_limits[2]
        y0 == c.arena_y_limits[1]
        y1 == c.arena_y_limits[2]
    IN  << <<<<x0, y0>>, <<x0, y1>>>>,
           <<<<x0, y0>>, <<x0, y1>>>>,
           <<<<x0, y0>>, <<x1, y0>>>>,
           <<<<x0, y1>>, <<x1, y1>>>> >>

\* _create_default_walls: left, right, bottom, top; each <<<<xi, yi>>, <<xf, yf>>>>
create_default_walls(c) ==
    LET x0 == c.arena_x_limits[1]
        x1 == c.arena_x_limits[2]
        y0 == c.arena_y_limits[1]
        y1 == c.arena_y_limits[2]
    IN  << <<<<x0, y0>>, <<x0, y1>>>>,
           <<<<x1, y0>>, <<x1, y1>>>>,
           <<<<x0, y0>>, <<x1, y0>>>>,
           <<<<x0, y1>>, <<x1, y1>>>> >>

\* _create_custom_walls: none in this class
create_custom_walls(c) == << >>

\* line 65
wall_list(c) == create_default_walls(c) \o create_custom_walls(c)

Cross(u, v) == u[1] * v[2] - u[2] * v[1]

Between(lo, x, hi) == (lo <= x /\ x <= hi) \/ (hi <= x /\ x <= lo)
InBox(p, a, b) == Between(a[1], p[1], b[1]) /\ Between(a[2], p[2], b[2])

\* neuralplayground.utils.check_crossing_wall.  The segment pre_state ->
\* new_state is pre + t * d, the wall is wall[1] + u * e; they intersect when
\* both parameters lie in [0, 1], end points included.  On a crossing the
\* corrected position is the intersection point (the position clamped to the
\* wall).  A movement along the wall (collinear and overlapping) is left
\* unspecified: either outcome may happen, chosen by `along`.
check_crossing_wall(pre_state, new_state, wall, along) ==
    LET d == <<new_state[1] - pre_state[1], new_state[2] - pre_state[2]>>
        e == <<wall[2][1] - wall[1][1], wall[2][2] - wall[1][2]>>
        w == <<wall[1][1] - pre_state[1], wall[1][2] - pre_state[2]>>
        den == Cross(d, e)
        tn == Cross(w, e)
        un == Cross(w, d)
        unit01(n) == IF den > 0 THEN 0 <= n /\ n <= den ELSE den <= n /\ n <= 0
        collinear == Cross(w, e) = 0 /\ Cross(w, d) = 0
        overlap == \/ InBox(pre_state, wall[1], wall[2])
                   \/ InBox(new_state, wall[1], wall[2])
                   \/ InBox(wall[1], pre_state, new_state)
                   \/ InBox(wall[2], pre_state, new_state)
    IN  IF den # 0
        THEN IF unit01(tn) /\ unit01(un)
             THEN [new_state |-> <<pre_state[1] + (d[1] * tn) \div den,
                                   pre_state[2] + (d[2] * tn) \div den>>,
                   crossed |-> TRUE]
             ELSE [new_state |-> new_state, crossed |-> FALSE]
        ELSE IF collinear /\ overlap /\ along
             THEN [new_state |-> pre_state, crossed |-> TRUE]
             ELSE [new_state |-> new_state, crossed |-> FALSE]

RECURSIVE ValidateLoop_lastOnly(_, _, _, _, _, _, _)
\* a variant whose line 231 is crossed_wall = crossed: the flag of the last
\* wall only
ValidateLoop_lastOnly(walls, k, pre_state, new_state, crossed_wall, flags, along) ==
    IF k > Len(walls)
    THEN [new_state |-> new_state, crossed_wall |-> crossed_wall, flags |-> flags]
    ELSE LET r == check_crossing_wall(pre_state, new_state, walls[k], along)
         IN  ValidateLoop_lastOnly(walls, k + 1, pre_state, r.new_state,
                                   r.crossed, Append(flags, r.crossed), along)

RECURSIVE ValidateLoop(_, _, _, _, _, _, _)
\* lines 229-231: the loop over wall_list, from wall k on; flags collects the
\* crossed result of each wall
ValidateLoop(walls, k, pre_state, new_state, crossed_wall, flags, along) ==
    IF k > Len(walls)
    THEN [new_state |-> new_state, crossed_wall |-> crossed_wall, flags |-> flags]
    ELSE LET r == check_crossing_wall(pre_state, new_state, walls[k], along)
         IN  ValidateLoop(walls, k + 1, pre_state, r.new_state,
                          r.crossed \/ crossed_wall, Append(flags, r.crossed), along)

\* validate_action(pre_state, action, new_state)
validate_action(c, pre_state, action, new_state, along) ==
    ValidateLoop(wall_list(c), 1, pre_state, new_state, FALSE, << >>, along)

---------------------------------------------------------------------------
(* make_object_observation *)

\* lines 174-178; st is self.state, objs is self.objects
make_object_observation(c, objs, st) ==
    LET pos == st[3]
        index == pos_to_state(c, ToGrid(c, pos))
        object == objs[index]
    IN  <<index, object, pos>>

---------------------------------------------------------------------------
(* The base class Environment (neuralplayground.arenas.arena_core) *)

\* Environment.__init__: an empty state array, an empty history, counters at 0
Environment_init ==
    [state |-> << >>, history |-> << >>, global_steps |-> 0, global_time |-> 0]

\* what np.empty leaves in a cell that has not been written: the cells of the
\* first table are never read (reset replaces the table before any row is
\* looked up), so one marker stands for their content
Unwritten == -1

\* __init__, lines 77-80: the fields of a constructed arena that has not been
\* reset; self.objects = np.empty(shape=(n_states, n_objects))
Constructed(c) ==
    [state |-> Environment_init.state,
     objects |-> [i \in 0..(n_states(c) - 1) |->
                    [j \in 0..(c.n_objects - 1) |-> Unwritten]],
     history |-> Environment_init.history,
     global_steps |-> Environment_init.global_steps,
     global_time |-> Environment_init.global_time]

\* a reward_function supplied by a specialisation: a number that tells
\* apart the actions and the positions it is called with
reward_override(action, pos) ==
    1 + pos[1] + 4 * pos[2] + 16 * action[1] + 64 * action[2]

\* Environment.reward_function(action, state): the default gives no reward;
\* a specialisation may override it
reward_function(c, action, pos) ==
    IF c.reward = "default" THEN 0 ELSE reward_override(action, pos)

\* Environment._increase_global_step; global_time = time_step_size * global_steps
increase_global_step(c, self) ==
    [self EXCEPT !.global_steps = self.global_steps + 1,
                 !.global_time = (self.global_steps + 1) * c.time_step_size]

---------------------------------------------------------------------------
(* reset *)

None == << >>

\* a variant that starts in the middle of the arena limits
InitialPosition_centre(c, np, random_state, custom_state) ==
    IF custom_state # None THEN custom_state[1]
    ELSE IF random_state
         THEN <<uniform(np, c.arena_x_limits[1], c.arena_x_limits[2]),
                uniform(RngNext(np), c.arena_y_limits[1], c.arena_y_limits[2])>>
         ELSE <<(c.arena_x_limits[1] + c.arena_x_limits[2]) \div 2,
                (c.arena_y_limits[1] + c.arena_y_limits[2]) \div 2>>

\* lines 106-113: the position reset starts from; custom_state is None or <<pos>>
InitialPosition(c, np, random_state, custom_state) ==
    IF custom_state # None THEN custom_state[1]
    ELSE IF random_state
         THEN <<uniform(np, c.arena_x_limits[1], c.arena_x_limits[2]),
                uniform(RngNext(np), c.arena_y_limits[1], c.arena_y_limits[2])>>
         ELSE <<0, 0>>

\* the two uniform draws of lines 107-108 are made whenever random_state is true
NpAfterReset(np, random_state) == IF random_state THEN RngIter(np, 2) ELSE np

\* a variant that keeps the history list
reset_keepHistory(c, self, py, np, random_state, custom_state) ==
    LET st0 == <<-1, -1, <<room_width(c) + 1, room_depth(c) + 1>>>>
        st1 == [st0 EXCEPT ![3] = InitialPosition(c, np, random_state, custom_state)]
        gen == generate_objects(c, py)
        observation == make_object_observation(c, gen.objects, st1)
    IN  [self |-> [state |-> observation, objects |-> gen.objects,
                   history |-> self.history, global_steps |-> 0, global_time |-> 0],
         py |-> gen.py, np |-> NpAfterReset(np, random_state),
         observation |-> observation]

\* a variant that makes the observation before the table is regenerated
reset_observeFirst(c, self, py, np, random_state, custom_state) ==
    LET st0 == <<-1, -1, <<room_width(c) + 1, room_depth(c) + 1>>>>
        st1 == [st0 EXCEPT ![3] = InitialPosition(c, np, random_state, custom_state)]
        gen == generate_objects(c, py)
        observation == make_object_observation(c, self.objects, st1)
    IN  [self |-> [state |-> observation, objects |-> gen.objects,
                   history |-> << >>, global_steps |-> 0, global_time |-> 0],
         py |-> gen.py, np |-> NpAfterReset(np, random_state),
         observation |-> observation]

\* reset(random_state, custom_state): the new fields of the arena, the states
\* the two generators are left in, and the returned observation (which is
\* also the returned state: line 120 returns the same list twice)
reset(c, self, py, np, random_state, custom_state) ==
    LET st0 == <<-1, -1, <<room_width(c) + 1, room_depth(c) + 1>>>>
        st1 == [st0 EXCEPT ![3] = InitialPosition(c, np, random_state, custom_state)]
        gen == generate_objects(c, py)
        observation == make_object_observation(c, gen.objects, st1)
    IN  [self |-> [state |-> observation, objects |-> gen.objects,
                   history |-> << >>, global_steps |-> 0, global_time |-> 0],
         py |-> gen.py, np |-> NpAfterReset(np, random_state),
         observation |-> observation]

---------------------------------------------------------------------------
(* step *)

\* np.linalg.norm(action) for an action along one axis
Norm(action) == Abs(action[1]) + Abs(action[2])

AxisAligned(action) == (action[1] = 0) # (action[2] = 0)

\* line 145, action / np.linalg.norm(action); exact for an action along one axis
Normalized(action) == <<action[1] \div Norm(action), action[2] \div Norm(action)>>

\* a variant that numbers the records from 1
Transition_fromOne(action, old_state, next_state, reward, steps) ==
    [action |-> action, state |-> old_state, next_state |-> next_state,
     reward |-> reward, step |-> steps + 1]

\* lines 154-155
Transition(action, old_state, next_state, reward, steps) ==
    [action |-> action, state |-> old_state, next_state |-> next_state,
     reward |-> reward, step |-> steps]

\* line 151, self.state[-1] = new_pos_state, assigns into the list object
\* self.state names.  After a step that list is the one stored as
\* "next_state" in the last history record (lines 153-154 store the same
\* list in both places), so the assignment shows there too; after a reset
\* the list is referenced by no record.
SetStateItem(hist, st, new_pos_state) ==
    [state |-> [st EXCEPT ![3] = new_pos_state],
     history |-> IF hist = << >> THEN hist
                 ELSE [hist EXCEPT ![Len(hist)].next_state =
                                        [st EXCEPT ![3] = new_pos_state]]]

\* a variant that computes the reward after the move, from the corrected
\* new position
step_rewardAfterMove(c, self, action, normalize_step, along) ==
    LET old_state == self.state                           \* line 143: a copy
        act == IF normalize_step THEN Normalized(action) ELSE action
        new_pos_state ==
            IF normalize_step
            THEN <<self.state[3][1] + c.agent_step_size * act[1],
                   self.state[3][2] + c.agent_step_size * act[2]>>
            ELSE <<self.state[3][1] + act[1], self.state[3][2] + act[2]>>
        v == validate_action(c, self.state[3], act, new_pos_state, along)
        reward == reward_function(c, act, v.new_state)
        set == SetStateItem(self.history, self.state, v.new_state)
        observation == make_object_observation(c, self.objects, set.state)
        transition == Transition(act, old_state, observation, reward,
                                 self.global_steps)
        appended == [self EXCEPT !.state = observation,
                                 !.history = Append(set.history, transition)]
    IN  [self |-> increase_global_step(c, appended),
         observation |-> observation,
         pre |-> self.state[3], proposed |-> new_pos_state,
         corrected |-> v.new_state, crossed |-> v.crossed_wall, flags |-> v.flags,
         action |-> act]

\* a variant that draws the object table again in every step
step_regenerate(c, self, action, normalize_step, along) ==
    LET regenerated == [self EXCEPT !.objects =
                            generate_objects(c, self.global_steps % RngMod).objects]
        old_state == self.state
        act == IF normalize_step THEN Normalized(action) ELSE action
        new_pos_state ==
            IF normalize_step
            THEN <<self.state[3][1] + c.agent_step_size * act[1],
                   self.state[3][2] + c.agent_step_size * act[2]>>
            ELSE <<self.state[3][1] + act[1], self.state[3][2] + act[2]>>
        v == validate_action(c, self.state[3], act, new_pos_state, along)
        reward == reward_function(c, act, self.state[3])
        set == SetStateItem(self.history, self.state, v.new_state)
        observation == make_object_observation(c, regenerated.objects, set.state)
        transition == Transition(act, old_state, observation, reward,
                                 self.global_steps)
        appended == [regenerated EXCEPT !.state = observation,
                                        !.history = Append(set.history, transition)]
    IN  [self |-> increase_global_step(c, appended),
         observation |-> observation,
         pre |-> self.state[3], proposed |-> new_pos_state,
         corrected |-> v.new_state, crossed |-> v.crossed_wall, flags |-> v.flags,
         action |-> act]

\* step(action, normalize_step); `along` resolves check_crossing_wall's
\* unspecified case
step(c, self, action, normalize_step, along) ==
    LET old_state == self.state                           \* line 143: a copy
        act == IF normalize_step THEN Normalized(action) ELSE action
        new_pos_state ==
            IF normalize_step
            THEN <<self.state[3][1] + c.agent_step_size * act[1],
                   self.state[3][2] + c.agent_step_size * act[2]>>
            ELSE <<self.state[3][1] + act[1], self.state[3][2] + act[2]>>
        v == validate_action(c, self.state[3], act, new_pos_state, along)
        reward == reward_function(c, act, self.state[3])
        set == SetStateItem(self.history, self.state, v.new_state)
        observation == make_object_observation(c, self.objects, set.state)
        transition == Transition(act, old_state, observation, reward,
                                 self.global_steps)
        appended == [self EXCEPT !.state = observation,
                                 !.history = Append(set.history, transition)]
    IN  [self |-> increase_global_step(c, appended),
         observation |-> observation,
         pre |-> self.state[3], proposed |-> new_pos_state,
         corrected |-> v.new_state, crossed |-> v.crossed_wall, flags |-> v.flags,
         action |-> act]

---------------------------------------------------------------------------
(* State machine *)

Self == [state |-> state, objects |-> objects, history |-> history,
         global_steps |-> global_steps, global_time |-> global_time]

NoCall ==
    [op |-> "none", inst |-> "A", random_state |-> FALSE, custom_state |-> None,
     len0 |-> 0,
     py0 |-> 0, np0 |-> 0, py1 |-> 0, np1 |-> 0, ret |-> << >>,
     action |-> << >>, pre |-> << >>, proposed |-> << >>, corrected |-> << >>,
     crossed |-> FALSE, flags |-> << >>,
     reset_ret |-> << >>]       \* what the first instance's last reset returned

\* `alone` where a single instance is run: it is not followed
NotFollowed == [self |-> << >>, py |-> 0, np |-> 0]

NotLocated == [kind |-> "none", pos |-> << >>, gpos |-> << >>, raised |-> FALSE, index |-> -1,
               from |-> -1]

\* initial positions a caller passes as custom_state: one inside the arena,
\* one beyond its upper x limit
CustomStates(c) ==
    LET ymid == (c.arena_y_limits[1] + c.arena_y_limits[2]) \div 2
    IN  {<<c.arena_x_limits[2] - 1, ymid>>, <<c.arena_x_limits[2] + 1, ymid>>}

\* the actions an agent passes to step
Actions == {<<0, 1>>, <<-1, -1>>, <<-2, 0>>, <<6, 0>>}

InitCommon ==
    /\ pyRng \in RngStates
    /\ npRng \in RngStates
    /\ state = Constructed(cfg).state
    /\ objects = Constructed(cfg).objects
    /\ history = Constructed(cfg).history
    /\ global_steps = Constructed(cfg).global_steps
    /\ global_time = Constructed(cfg).global_time
    /\ lastCall = NoCall
    /\ prevReset = NoCall
    /\ located = NotLocated
    /\ other = Constructed(cfg)

Init ==
    /\ cfg \in ArenaConfigs
    /\ InitCommon
    /\ alone = NotFollowed

SameArgs(a, b) ==
    a.op = b.op /\ a.random_state = b.random_state /\ a.custom_state = b.custom_state

\* reset(random_state, custom_state).  Before the call the driving program
\* may seed either generator again with the seed it used before the previous
\* reset (random.seed(k), np.random.seed(k)), which puts that generator back
\* into the state the previous reset started from.
Reset(random_state, custom_state, reseed_py, reseed_np) ==
    /\ (reseed_py \/ reseed_np) => lastCall.op = "reset"
    /\ \E py0 \in {IF reseed_py THEN lastCall.py0 ELSE pyRng},
          np0 \in {IF reseed_np THEN lastCall.np0 ELSE npRng} :
       \E r \in {reset(cfg, Self, py0, np0, random_state, custom_state)} :
       \E call \in {[NoCall EXCEPT !.op = "reset", !.random_state = random_state,
                                   !.custom_state = custom_state,
                                   !.len0 = Len(history),
                                   !.py0 = py0, !.np0 = np0,
                                   !.py1 = r.py, !.np1 = r.np,
                                   !.ret = r.observation,
                                   !.reset_ret = r.observation]} :
        /\ state' = r.self.state
        /\ objects' = r.self.objects
        /\ history' = r.self.history
        /\ global_steps' = r.self.global_steps
        /\ global_time' = r.self.global_time
        /\ pyRng' = r.py
        /\ npRng' = r.np
        /\ lastCall' = call
        /\ prevReset' = IF SameArgs(lastCall, call) THEN lastCall ELSE NoCall
        /\ UNCHANGED <<cfg, located>>

\* step needs a state to move from (state[-1] of the empty array fails), and
\* normalize_step is modelled for actions along one axis
Step(action, normalize_step, along) ==
    /\ state # << >>
    /\ global_steps < MaxSteps
    /\ normalize_step => AxisAligned(action)
    /\ \E r \in {step(cfg, Self, action, normalize_step, along)} :
           /\ state' = r.self.state
           /\ objects' = r.self.objects
           /\ history' = r.self.history
           /\ global_steps' = r.self.global_steps
           /\ global_time' = r.self.global_time
           /\ lastCall' = [NoCall EXCEPT !.op = "step", !.ret = r.observation,
                                         !.len0 = Len(history),
                                         !.action = r.action, !.pre = r.pre,
                                         !.proposed = r.proposed,
                                         !.corrected = r.corrected,
                                         !.crossed = r.crossed, !.flags = r.flags,
                                         !.reset_ret = lastCall.reset_ret]
           /\ prevReset' = NoCall
           /\ UNCHANGED <<cfg, pyRng, npRng, located>>

ResetAny ==
    \E random_state \in BOOLEAN,
       custom_state \in {None} \cup {<<p>> : p \in CustomStates(cfg)},
       reseed_py \in BOOLEAN, reseed_np \in BOOLEAN :
        Reset(random_state, custom_state, reseed_py, reseed_np)
            /\ UNCHANGED <<other, alone>>

StepAny ==
    \E action \in Actions, normalize_step \in BOOLEAN, along \in BOOLEAN :
        Step(action, normalize_step, along) /\ UNCHANGED <<other, alone>>

Next == ResetAny \/ StepAny

Spec == Init /\ [][Next]_vars

---------------------------------------------------------------------------
(* Direct queries of pos_to_state, on every grid of GridConfigs *)

\* the lattice positions queried: the arena and a margin of one step around it
QueryPositions(c) ==
    {<<x, y>> : x \in (c.arena_x_limits[1] - 1)..(c.arena_x_limits[2] + 1),
                y \in (c.arena_y_limits[1] - 1)..(c.arena_y_limits[2] + 1)}

InitGrid ==
    /\ cfg \in GridConfigs
    /\ InitCommon
    /\ pyRng = 0
    /\ npRng = 0
    /\ alone = NotFollowed

\* pos_to_state(pos) for a lattice position
Locate(pos) ==
    /\ located' = IF ArgminRaises(cfg)
                  THEN [NotLocated EXCEPT !.kind = "position", !.pos = pos,
                                          !.gpos = ToGrid(cfg, pos), !.raised = TRUE]
                  ELSE [NotLocated EXCEPT !.kind = "position", !.pos = pos,
                                          !.gpos = ToGrid(cfg, pos),
                                          !.index = pos_to_state(cfg, ToGrid(cfg, pos))]
    /\ UNCHANGED <<cfg, pyRng, npRng, state, objects, history, global_steps,
                   global_time, lastCall, prevReset, other, alone>>

\* pos_to_state on the centre of the cell the last query returned
LocateCentre ==
    /\ located.kind = "position"
    /\ ~located.raised
    /\ located' = [NotLocated EXCEPT !.kind = "centre",
                                     !.gpos = CellCentre(cfg, located.index),
                                     !.from = located.index,
                                     !.index = pos_to_state(cfg, CellCentre(cfg, located.index))]
    /\ UNCHANGED <<cfg, pyRng, npRng, state, objects, history, global_steps,
                   global_time, lastCall, prevReset, other, alone>>

LocateAny == \E pos \in QueryPositions(cfg) : Locate(pos)

NextGrid == LocateAny \/ LocateCentre

SpecGrid == InitGrid /\ [][NextGrid]_vars

---------------------------------------------------------------------------
(* Two arena instances A and B of one process, driven in any interleaving. *)
(* A's fields are the variables state .. global_time, B's are `other`; the *)
(* two module-level generators pyRng and npRng belong to the process, so   *)
(* both instances draw from them.  `alone` follows the run in which the    *)
(* same calls are made on A and none on B.                                 *)

\* the actions passed to step in the two-instance runs
ActionsTwo == {<<0, 1>>, <<-2, 0>>}

\* the process has seeded both generators before it constructs the arenas
InitTwo ==
    /\ cfg = CfgOffset
    /\ InitCommon
    /\ pyRng = 0
    /\ npRng = 0
    /\ alone = [self |-> Constructed(cfg), py |-> pyRng, np |-> npRng]

\* A.reset(random_state)
ResetA(random_state) ==
    /\ Reset(random_state, None, FALSE, FALSE)
    /\ \E r \in {reset(cfg, alone.self, alone.py, alone.np, random_state, None)} :
           alone' = [self |-> r.self, py |-> r.py, np |-> r.np]
    /\ other' = other

\* A.step(action)
StepA(action) ==
    /\ Step(action, FALSE, TRUE)
    /\ \E r \in {step(cfg, alone.self, action, FALSE, TRUE)} :
           alone' = [alone EXCEPT !.self = r.self]
    /\ other' = other

\* B.reset(random_state)
ResetB(random_state) ==
    \E r \in {reset(cfg, other, pyRng, npRng, random_state, None)} :
        /\ other' = r.self
        /\ pyRng' = r.py
        /\ npRng' = r.np
        /\ lastCall' = [NoCall EXCEPT !.op = "reset", !.inst = "B",
                                      !.random_state = random_state,
                                      !.len0 = Len(other.history),
                                      !.py0 = pyRng, !.np0 = npRng,
                                      !.py1 = r.py, !.np1 = r.np,
                                      !.ret = r.observation,
                                      !.reset_ret = lastCall.reset_ret]
        /\ prevReset' = NoCall
        /\ UNCHANGED <<cfg, state, objects, history, global_steps, global_time,
                       located, alone>>

\* B.step(action)
StepB(action) ==
    /\ other.state # << >>
    /\ other.global_steps < MaxSteps
    /\ \E r \in {step(cfg, other, action, FALSE, TRUE)} :
        /\ other' = r.self
        /\ lastCall' = [NoCall EXCEPT !.op = "step", !.inst = "B",
                                      !.ret = r.observation,
                                      !.len0 = Len(other.history),
                                      !.action = r.action, !.pre = r.pre,
                                      !.proposed = r.proposed,
                                      !.corrected = r.corrected,
                                      !.crossed = r.crossed, !.flags = r.flags,
                                      !.reset_ret = lastCall.reset_ret]
        /\ prevReset' = NoCall
        /\ UNCHANGED <<cfg, pyRng, npRng, state, objects, history, global_steps,
                       global_time, located, alone>>

ResetAAny == \E random_state \in BOOLEAN : ResetA(random_state)
StepAAny == \E action \in ActionsTwo : StepA(action)
ResetBAny == \E random_state \in BOOLEAN : ResetB(random_state)
StepBAny == \E action \in ActionsTwo : StepB(action)

NextTwo == ResetAAny \/ StepAAny \/ ResetBAny \/ StepBAny

SpecTwo == InitTwo /\ [][NextTwo]_vars

---------------------------------------------------------------------------
(* Properties *)

IsReset == lastCall.op = "reset"
IsStep == lastCall.op = "step"

\* cell k is a first nearest cell of the grid position g: no cell is nearer,
\* and every cell before it in the enumeration is strictly farther
FirstNearest(c, k, g) ==
    /\ k \in 0..(n_states(c) - 1)
    /\ \A m \in 0..(n_states(c) - 1) :
            SqDist(CellCentre(c, k), g) <= SqDist(CellCentre(c, m), g)
    /\ \A m \in 0..(k - 1) :
            SqDist(CellCentre(c, m), g) > SqDist(CellCentre(c, k), g)

\* some other cell is exactly as near to g as cell k
Tied(c, k, g) ==
    \E m \in 0..(n_states(c) - 1) :
        m # k /\ SqDist(CellCentre(c, m), g) = SqDist(CellCentre(c, k), g)

\* C1: after reset and after every step the agent state is consistent: its
\* index is the first argmin, over all cell centres, of the squared distance
\* to its position, and its object vector is the object-table row of that index
C1_StateConsistent ==
    state # << >> =>
        /\ FirstNearest(cfg, state[1], ToGrid(cfg, state[3]))
        /\ state[2] = objects[state[1]]

\* a second step has ended on a position with two equally near cells, in a
\* cell other than cell 0
C1_Witness ==
    /\ IsStep
    /\ Len(history) = 2
    /\ state[1] > 0
    /\ Tied(cfg, state[1], ToGrid(cfg, state[3]))

\* C2: history is append-only: a step adds one record at the end and leaves
\* every earlier record as it was; only reset removes records
C2_AppendOnly ==
    [][ \/ history' = history
        \/ IsReset' /\ history' = << >>
        \/ /\ IsStep'
           /\ Len(history') = Len(history) + 1
           /\ SubSeq(history', 1, Len(history)) = history ]_vars

\* C3: each step appends exactly one record and adds one to the step
\* counter, so k steps after a reset len(history) = k = global_steps, and
\* the j-th record (from 0) carries step index j
C3_StepCount ==
    /\ [](/\ Len(history) = global_steps
          /\ \A j \in 1..Len(history) : history[j].step = j - 1)
    /\ [][IsStep' /\ lastCall' # lastCall =>
            /\ Len(history') = Len(history) + 1
            /\ global_steps' = global_steps + 1]_vars

\* two steps have been made since the last reset
C3_Witness ==
    /\ IsStep
    /\ Len(history) = 2
    /\ global_steps = 2
    /\ history[2].step = 1

\* C5: directly after any reset, whatever came before it, history is empty,
\* global_steps and global_time are 0 and the object table has one row per
\* discrete state
C5_ResetClears ==
    IsReset =>
        /\ history = << >>
        /\ global_steps = 0
        /\ global_time = 0
        /\ DOMAIN objects = 0..(n_states(cfg) - 1)

\* a reset that was called with a full history
C5_Witness ==
    /\ IsReset
    /\ lastCall.len0 = MaxSteps
    /\ history = << >>

\* C6: reset(random_state=False) with no custom_state yields position (0,0)
\* and the discrete index pos_to_state((0,0))
C6_ResetOrigin ==
    (IsReset /\ ~lastCall.random_state /\ lastCall.custom_state = None) =>
        /\ state[3] = <<0, 0>>
        /\ state[1] = pos_to_state(cfg, ToGrid(cfg, <<0, 0>>))
        /\ lastCall.ret = state

\* such a reset after an episode, in the arena whose limits are not centred
\* on the origin
C6_Witness ==
    /\ IsReset /\ ~lastCall.random_state /\ lastCall.custom_state = None
    /\ lastCall.len0 > 0
    /\ cfg = CfgOffset
    /\ state[3] = <<0, 0>>

OneHot(v, n) ==
    /\ DOMAIN v = 0..(n - 1)
    /\ \A j \in 0..(n - 1) : v[j] \in {0, 1}
    /\ Cardinality({j \in 0..(n - 1) : v[j] = 1}) = 1

\* C7: the table generate_objects returns has n_states rows and every row is
\* a one-hot vector of length n_objects, whatever the draws; so the object
\* table is such a table after every reset
C7_OneHotTable ==
    state # << >> =>
        /\ DOMAIN objects = 0..(n_states(cfg) - 1)
        /\ \A i \in 0..(n_states(cfg) - 1) : OneHot(objects[i], cfg.n_objects)

\* a reset has drawn a table that holds two different objects
C7_Witness ==
    /\ IsReset
    /\ \E i, j \in 0..(n_states(cfg) - 1) : objects[i] # objects[j]

---------------------------------------------------------------------------
(* C4: the boundary walls *)

WithinArena(c, p) ==
    /\ c.arena_x_limits[1] <= p[1] /\ p[1] <= c.arena_x_limits[2]
    /\ c.arena_y_limits[1] <= p[2] /\ p[2] <= c.arena_y_limits[2]

\* p is not on the outer side of default wall k (left, right, bottom, top)
NotBeyond(c, k, p) ==
    CASE k = 1 -> p[1] >= c.arena_x_limits[1]
      [] k = 2 -> p[1] <= c.arena_x_limits[2]
      [] k = 3 -> p[2] >= c.arena_y_limits[1]
      [] k = 4 -> p[2] <= c.arena_y_limits[2]

\* the arena with x-limits [-5,5] and y-limits [-5,5]
FiveByFive(c) ==
    /\ c.arena_x_limits = <<-5 * c.unit, 5 * c.unit>>
    /\ c.arena_y_limits = <<-5 * c.unit, 5 * c.unit>>

\* the step's proposed position is corrected to x <= 5 with the crossed
\* flag set
RightWallHolds ==
    (FiveByFive(cfg) /\ lastCall.proposed[1] > 5 * cfg.unit) =>
        /\ lastCall.corrected[1] <= 5 * cfg.unit
        /\ state[3][1] <= 5 * cfg.unit
        /\ lastCall.crossed

\* the position stored after the step lies beyond no boundary wall that the
\* step's segment crossed
CrossedWallsHold ==
    \A k \in 1..4 : lastCall.flags[k] => NotBeyond(cfg, k, state[3])

\* C4 as stated: in the arena [-5,5] x [-5,5] every step whose proposed
\* position lies beyond the right boundary is corrected to x <= 5 with
\* crossed true, and after any step the stored position lies beyond no
\* boundary wall the segment crossed
C4_Original == IsStep => (RightWallHolds /\ CrossedWallsHold)

\* C4, amended: the same for every step that starts within the arena limits
C4_WallsHold ==
    (IsStep /\ WithinArena(cfg, lastCall.pre)) => (RightWallHolds /\ CrossedWallsHold)

\* the step from (0,0) with action (6,0) in the arena [-5,5] x [-5,5]
C4_Witness ==
    /\ IsStep /\ FiveByFive(cfg)
    /\ lastCall.pre = <<0, 0>>
    /\ lastCall.proposed = <<6 * cfg.unit, 0>>
    /\ lastCall.corrected[1] = 5 * cfg.unit
    /\ lastCall.crossed

---------------------------------------------------------------------------
(* C8, C9: pos_to_state queried directly (SpecGrid) *)

StrictlyInside(c, p) ==
    /\ c.arena_x_limits[1] < p[1] /\ p[1] < c.arena_x_limits[2]
    /\ c.arena_y_limits[1] < p[2] /\ p[2] < c.arena_y_limits[2]

\* state_density >= 1
DensityAtLeastOne(c) == c.density_num >= c.density_den

\* the query was for a position strictly inside an arena of density >= 1
InsideQuery ==
    /\ located.kind = "position"
    /\ StrictlyInside(cfg, located.pos)
    /\ DensityAtLeastOne(cfg)

\* the query returned an index in [0, N) whose cell is as near to the
\* position as any cell
NearestReturned ==
    /\ ~located.raised
    /\ located.index \in 0..(n_states(cfg) - 1)
    /\ \A m \in 0..(n_states(cfg) - 1) :
            SqDist(CellCentre(cfg, located.index), located.gpos)
                <= SqDist(CellCentre(cfg, m), located.gpos)

\* C8 as stated: for every position strictly inside the arena and every
\* density >= 1, pos_to_state returns an index in [0, N) of a nearest cell
C8_Original == InsideQuery => NearestReturned

\* C8, amended: the same whenever the grid has at least one cell on each
\* axis (int(state_density * room_width) >= 1 and likewise for the depth)
C8_Nearest ==
    (InsideQuery /\ resolution_w(cfg) >= 1 /\ resolution_d(cfg) >= 1) =>
        NearestReturned

\* a query strictly inside, on a grid of density 3/2, for a position with
\* two equally near cells, answered with a cell other than cell 0
C8_Witness ==
    /\ InsideQuery
    /\ cfg.density_num > cfg.density_den
    /\ ~located.raised
    /\ located.index > 0
    /\ Tied(cfg, located.index, located.gpos)

\* C9: pos_to_state on the centre of the cell that pos_to_state returned
\* gives that cell's index again
C9_RoundTrip ==
    located.kind = "centre" => (~located.raised /\ located.index = located.from)

\* the round trip was made for a cell in the second row of a grid that is
\* not square
C9_Witness ==
    /\ located.kind = "centre"
    /\ resolution_w(cfg) # resolution_d(cfg)
    /\ located.from >= resolution_w(cfg)
    /\ located.index = located.from

---------------------------------------------------------------------------
(* C10: two resets in a row *)

\* lastCall is a reset that directly follows a reset with the same arguments
TwoResets == IsReset /\ prevReset.op = "reset"

\* no generator was seeded between the two resets: the second started from
\* the generator states the first one left
NotReseeded == lastCall.py0 = prevReset.py1 /\ lastCall.np0 = prevReset.np1

\* the generators the reset draws from were in the same state before both
\* resets: Python's always (the object table), and numpy's when a random
\* position is drawn and used
SameGeneratorStates ==
    /\ lastCall.py0 = prevReset.py0
    /\ (lastCall.random_state /\ lastCall.custom_state = None) =>
            lastCall.np0 = prevReset.np0

\* C10 as stated: with the seed set once, two resets in a row with the same
\* arguments return the same observation
C10_Original == (TwoResets /\ NotReseeded) => lastCall.ret = prevReset.ret

\* C10, amended: two resets in a row with the same arguments return the
\* same observation when the generators are put into the same state before
\* each of them (seeded with the same seed before each call)
C10_SameSeedSameObservation ==
    (TwoResets /\ SameGeneratorStates) => lastCall.ret = prevReset.ret

\* two resets with random_state true, the second after seeding both
\* generators again, the first having advanced both
C10_Witness ==
    /\ TwoResets
    /\ lastCall.random_state /\ lastCall.custom_state = None
    /\ lastCall.py0 = prevReset.py0 /\ lastCall.np0 = prevReset.np0
    /\ prevReset.py1 # prevReset.py0 /\ prevReset.np1 # prevReset.np0
    /\ lastCall.ret = prevReset.ret

---------------------------------------------------------------------------
(* C11: the layout of the grid built by __init__ (SpecGrid) *)

\* the arena limits on the denominator of the grid
XLow(c) == c.arena_x_limits[1] * GridDen(c)
XHigh(c) == c.arena_x_limits[2] * GridDen(c)
YLow(c) == c.arena_y_limits[1] * GridDen(c)
YHigh(c) == c.arena_y_limits[2] * GridDen(c)

\* a[0..n-1] is evenly spaced and increases (dir = 1) or decreases (dir = -1)
EvenlySpaced(a, n, dir) ==
    /\ \A i \in 0..(n - 2) : dir * (a[i + 1] - a[i]) > 0
    /\ \A i \in 0..(n - 3) : a[i + 2] - a[i + 1] = a[i + 1] - a[i]

\* x runs from the lower to the upper arena x-limit
XSpansArena(c) ==
    /\ EvenlySpaced(x_array(c), resolution_w(c), 1)
    /\ resolution_w(c) >= 1 => x_array(c)[0] = XLow(c)
    /\ resolution_w(c) >= 2 => x_array(c)[resolution_w(c) - 1] = XHigh(c)

\* y runs from the upper to the lower arena y-limit
YSpansArena(c) ==
    /\ EvenlySpaced(y_array(c), resolution_d(c), -1)
    /\ resolution_d(c) >= 1 => y_array(c)[0] = YHigh(c)
    /\ resolution_d(c) >= 2 => y_array(c)[resolution_d(c) - 1] = YLow(c)

\* every cell centre of the grid lies within the arena limits
CentresWithinArena(c) ==
    \A i \in 0..(resolution_w(c) - 1), j \in 0..(resolution_d(c) - 1) :
        /\ XLow(c) <= Grids[c][i][j][1] /\ Grids[c][i][j][1] <= XHigh(c)
        /\ YLow(c) <= Grids[c][i][j][2] /\ Grids[c][i][j][2] <= YHigh(c)

\* C11: for any arena limits and density the grid has resolution_w x
\* resolution_d cells whose centres form a regular lattice, x ascending from
\* the lower to the upper arena x-limit and y descending from the upper to
\* the lower arena y-limit, so that every centre lies within the arena limits
C11_GridSpansArena ==
    /\ DOMAIN Grids[cfg] = 0..(resolution_w(cfg) - 1)
    /\ \A i \in DOMAIN Grids[cfg] : DOMAIN Grids[cfg][i] = 0..(resolution_d(cfg) - 1)
    /\ XSpansArena(cfg)
    /\ YSpansArena(cfg)
    /\ CentresWithinArena(cfg)

---------------------------------------------------------------------------
(* C12: validate_action over the wall list *)

\* which side of the line through the wall the point p lies on (0: on it)
Side(wall, p) ==
    Cross(<<wall[2][1] - wall[1][1], wall[2][2] - wall[1][2]>>,
          <<p[1] - wall[1][1], p[2] - wall[1][2]>>)

\* p and q do not lie strictly on the same side of the wall's line
NotSameSide(wall, p, q) ==
    \/ Side(wall, p) >= 0 /\ Side(wall, q) <= 0
    \/ Side(wall, p) <= 0 /\ Side(wall, q) >= 0

\* C12: validate_action tests every wall of wall_list, in list order (the
\* k-th result belongs to the k-th wall: up to the first crossing, a wall
\* reported crossed is one the segment from the previous to the proposed
\* position does not stay on one side of); the returned flag is the logical
\* OR of the per-wall results; and when no wall is crossed the returned
\* position is the proposed one and the flag is false
C12_CrossedIsOr ==
    IsStep =>
        /\ Len(lastCall.flags) = Len(wall_list(cfg))
        /\ lastCall.crossed = (\E k \in 1..Len(lastCall.flags) : lastCall.flags[k])
        /\ \A k \in 1..Len(lastCall.flags) :
               (lastCall.flags[k] /\ \A m \in 1..(k - 1) : ~lastCall.flags[m]) =>
                   NotSameSide(wall_list(cfg)[k], lastCall.pre, lastCall.proposed)
        /\ (\A k \in 1..Len(lastCall.flags) : ~lastCall.flags[k]) =>
               (lastCall.corrected = lastCall.proposed /\ ~lastCall.crossed)

\* a step that crosses the right wall (the second of the list) and no other
C12_Witness ==
    /\ IsStep
    /\ Len(lastCall.flags) = 4
    /\ lastCall.flags = <<FALSE, TRUE, FALSE, FALSE>>
    /\ lastCall.crossed
    /\ lastCall.corrected # lastCall.proposed

---------------------------------------------------------------------------
(* C13: the reward of a step *)

\* C13: the reward of a step is the reward function's value for the action
\* and the position held before the move (not the proposed or corrected new
\* position), and that value is the one stored in the record the step appends
C13_RewardFromPreviousPosition ==
    IsStep =>
        /\ Len(history) = lastCall.len0 + 1
        /\ history[Len(history)].reward =
               reward_function(cfg, lastCall.action, lastCall.pre)
        /\ history[Len(history)].action = lastCall.action

\* a step of an arena with its own reward function that moved the agent, and
\* whose reward would have been another number at the new position
C13_Witness ==
    /\ IsStep
    /\ cfg.reward = "override"
    /\ lastCall.corrected # lastCall.pre
    /\ history[Len(history)].reward # 0
    /\ reward_function(cfg, lastCall.action, lastCall.corrected)
           # history[Len(history)].reward

---------------------------------------------------------------------------
(* C14: two instances (SpecTwo) *)

\* a call on one instance leaves the fields of the other as they were
FrameOfInstances ==
    [][ /\ lastCall'.inst = "A" => other' = other
        /\ lastCall'.inst = "B" => Self' = Self ]_vars

\* A's position, index, table, history and counters, and so every result A
\* returned, are those of the run in which B was never operated
UnaffectedByOther == Self = alone.self

\* C14: arena instances are independent: an operation on one instance leaves
\* the other's position, index, object table, history and step counter
\* unchanged, and what an instance produces does not depend on the
\* operations applied to the other
C14_InstancesIndependent == FrameOfInstances /\ []UnaffectedByOther

---------------------------------------------------------------------------
(* C15: the chain of history records *)

\* C15: the records of the history chain: the state field of each record
\* after the first equals the next_state field of the record before it
\* (index, object vector and position), and the state field of the first
\* record equals the state the reset returned
C15_RecordsChain ==
    /\ \A j \in 1..(Len(history) - 1) :
           history[j + 1].state = history[j].next_state
    /\ Len(history) >= 1 => history[1].state = lastCall.reset_ret

---------------------------------------------------------------------------
(* C16: the object table within an episode *)

\* the observation st = <<index, object, pos>> shows the table's row of its index
ShowsTableRow(st) == st[2] = objects[st[1]]

\* every observation of the episode shows the table's row of its index
EpisodeShowsTable ==
    state # << >> =>
        /\ ShowsTableRow(state)
        /\ \A j \in 1..Len(history) :
               /\ ShowsTableRow(history[j].state)
               /\ ShowsTableRow(history[j].next_state)

\* C16: the object table changes only at reset: a step leaves it unchanged,
\* so every observation made in the episode (the current state and the
\* state and next_state of every record) shows the current table's row of
\* its index, and two visits to one discrete state show the same object
\* (stated for every call made: the initial state has no observation)
C16_TableFixedInEpisode ==
    [][ /\ lastCall'.op = "step" => objects' = objects
        /\ EpisodeShowsTable' ]_vars

\* two steps after a reset the agent is back in the discrete state it
\* started in, having been in another one in between
C16_Witness ==
    /\ IsStep
    /\ Len(history) = 2
    /\ history[1].state[1] = state[1]
    /\ history[2].state[1] # state[1]
    /\ history[1].state[2] = state[2]

====
